---- MODULE Spec2Model ----
(***************************************************************************)
(* Model of src/stock_app/app.py: a Streamlit script that resolves a list  *)
(* of ticker symbols (published Google Sheet, embedded default list or a   *)
(* text area), fetches one quote record per symbol through a time-boxed    *)
(* result cache, sorts the table by symbol and displays/exports it.        *)
(*                                                                         *)
(* Strings are sequences of one-character strings, so that strip, upper,   *)
(* split, len and the lexicographic order of the sort are computed rather  *)
(* than assumed.                                                           *)
(***************************************************************************)
EXTENDS Integers, Sequences, FiniteSets, TLC

(***************************************************************************)
(* Characters, in code point order: " " < "," < "A".."Z" < "a".."z".       *)
(***************************************************************************)
Alphabet ==
    <<" ", ",",
      "A","B","C","D","E","F","G","H","I","J","K","L","M",
      "N","O","P","Q","R","S","T","U","V","W","X","Y","Z",
      "a","b","c","d","e","f","g","h","i","j","k","l","m",
      "n","o","p","q","r","s","t","u","v","w","x","y","z">>

Ord == [c \in {Alphabet[k] : k \in 1..Len(Alphabet)} |->
           CHOOSE k \in 1..Len(Alphabet) : Alphabet[k] = c]

\* str.upper() on one character: "a".."z" map to "A".."Z", the rest is kept.
UpperChar(c) == IF Ord[c] >= Ord["a"] THEN Alphabet[Ord[c] - Ord["a"] + Ord["A"]] ELSE c

\* str.upper()
Upper(s) == [k \in 1..Len(s) |-> UpperChar(s[k])]

\* str.strip(): leading and trailing whitespace removed.
RECURSIVE LStrip(_)
LStrip(s) == IF s # <<>> /\ Head(s) = " " THEN LStrip(Tail(s)) ELSE s

RECURSIVE RStrip(_)
RStrip(s) == IF s # <<>> /\ s[Len(s)] = " " THEN RStrip(SubSeq(s, 1, Len(s) - 1)) ELSE s

Strip(s) == RStrip(LStrip(s))

\* 1, 2, ..., n
Positions(n) == [k \in 1..n |-> k]

\* The sequence f itself, with its elements computed once (TLC would otherwise
\* compute f[k] anew at every use).
Computed(f) == SubSeq(f, 1, Len(f))

\* str.split(','): the fields between the commas, empty fields included.
Split(s) ==
    LET commas == SelectSeq(Positions(Len(s)), LAMBDA k : s[k] = ",")
        first(n) == IF n = 1 THEN 1 ELSE commas[n - 1] + 1
        last(n) == IF n > Len(commas) THEN Len(s) ELSE commas[n] - 1
    IN  [n \in 1..(Len(commas) + 1) |-> SubSeq(s, first(n), last(n))]

\* [t.strip() for t in text.split(',') if t.strip()]   (lines 115 and 134)
ParseTickerText(text) ==
    LET fields == Split(text)
        stripped == [n \in 1..Len(fields) |-> Strip(fields[n])]
    IN  SelectSeq(stripped, LAMBDA t : t # <<>>)

\* Python's < on strings: lexicographic by code point, a proper prefix first.
RECURSIVE StrLess(_, _)
StrLess(a, b) ==
    IF b = <<>> THEN FALSE
    ELSE IF a = <<>> THEN TRUE
    ELSE IF Head(a) = Head(b) THEN StrLess(Tail(a), Tail(b))
    ELSE Ord[Head(a)] < Ord[Head(b)]

(***************************************************************************)
(* Configuration constants of the script.                                  *)
(***************************************************************************)
DEFAULT_TICKERS_STR ==
    <<
       "O","R","C","L",","," ","M","U",","," ","A","V","G","O",","," ","T","S","M",","," ","N","F","L","X",","," ","G","O","O","G",","," ","M","E","T","A",","," ","N","V","D","A",","," ","A","S","M","L",","," ","T","S","L","A",","," ","M","S","F","T",","," ","A","M","Z","N",","," ","A","A","P","L",","," ",
       "O","N",","," ","C","D","N","S",","," ","G","F","S",","," ","G","E","V",","," ","Q","C","O","M",","," ","K","L","A","C",","," ","L","R","C","X",","," ","S","M","C","I",","," ","A","M","A","T",","," ","I","N","T","C",","," ","A","M","D",","," ","A","R","M",","," ","G","E",","," ","V","R","T",","," ",
       "I","B","M",","," ","S","A","P",","," ","A","D","B","E",","," ","N","O","W",","," ","C","R","M",","," ","F","T","N","T",","," ","P","A","N","W",","," ","C","R","W","D",","," ","A","P","P",","," ","V","R","S","K",","," ","M","R","V","L",","," ","V","R","S","N",","," ","D","U","O","L",","," ",
       "Z","M",","," ","C","S","C","O",","," ","S","N","P","S",","," ","A","N","E","T",","," ","D","E","L","L",","," ","M","N","S","T",","," ","U",","," ","C","R","C","L",","," ","C","C","J",","," ","O","X","Y",","," ","S","N","O","W",","," ","H","O","O","D",","," ","P","L","T","R",","," ",
       "R","B","L","X",","," ","V","S","T",","," ","S","O","F","I",","," ","T","E","M",","," ","E","B","A","Y",","," ","S","E",","," ","S","H","O","P",","," ","P","D","D",","," ","P","C","A","R",","," ","C","A","T",","," ","W","M","T",","," ","L","U","L","U",","," ","M","S",","," ","B","A","C",","," ",
       "C","V","X",","," ","A","B","B","V",","," ","N","E","E",","," ","E","X","P","E",","," ","B","K","N","G",","," ","G","E","H","C",","," ","M","E","L","I",","," ","A","N","F",","," ","G","S",","," ","A","X","P",","," ","L","L","Y",","," ","N","V","O",","," ","R","E","G","N",","," ","I","S","R","G",","," ",
       "A","B","N","B",","," ","K","O",","," ","U","B","E","R",","," ","U","P","S","T",","," ","P","Y","P","L",","," ","C","R","W","V",","," ","M","R","K",","," ","U","N","H",","," ","S","B","U","X",","," ","V",","," ","S","N","A","P",","," ","I","B","M",","," ","A","F","R","M",","," ","D","E","C","K"
    >>

\* GOOGLE_SHEET_URL (line 12) is a non-empty string in the script as shipped; the
\* script's other branch (lines 116-134) runs when it is set to "".  Which of
\* the two holds is fixed per deployment: see the variable sheet_configured.

\* @st.cache_data(ttl=300): seconds a memoized result stays valid.
TTL == 300

\* The notes written to the error column (lines 55, 78, 74).
NOTE_NO_HISTORY == "no historical price data found"
NOTE_FETCH_FAILED == "fetch failed"
NOTE_NONE == ""

(***************************************************************************)
(* Bounds of the model.                                                    *)
(***************************************************************************)
\* longest ticker list given to get_stock_data when it is checked on its own
MaxLen == 2

(***************************************************************************)
(* The market data provider (yfinance), seen from the script: the answer   *)
(* to the requests made for one symbol.  Amounts are in thousandths.       *)
(*   hist : "rows" | "empty" | "raise"   ticker.history(period="1y")       *)
(*   low, high, close : hist['Low'].min(), hist['High'].max(),             *)
(*                      hist['Close'].iloc[-1]                             *)
(*   info : "ok" | "raise"               ticker.info                       *)
(*   trailingPE, forwardPE : the info bundle's entries, possibly absent    *)
(***************************************************************************)
Absent == [present |-> FALSE, v |-> 0]
Present(x) == [present |-> TRUE, v |-> x]

\* ratios an info bundle may carry (thousandths): zero and a usual one
RatioValues == {0, 15238}
Ratios == {Absent} \cup {Present(x) : x \in RatioValues}

NoAnswer(h) ==
    [hist |-> h, low |-> 0, high |-> 0, close |-> 0,
     info |-> "ok", trailingPE |-> Absent, forwardPE |-> Absent]

Quote(inf, t, f) ==
    [hist |-> "rows", low |-> 101234, high |-> 250987, close |-> 180456,
     info |-> inf, trailingPE |-> t, forwardPE |-> f]

Responses ==
    {NoAnswer("empty"), NoAnswer("raise"), Quote("raise", Absent, Absent)}
    \cup {Quote("ok", t, f) : t \in Ratios, f \in Ratios}

(***************************************************************************)
(* get_stock_data, lines 32-84.                                            *)
(***************************************************************************)
\* round(x, 2) for x in thousandths, result in hundredths (no value of the
\* model lies halfway between two hundredths).
Round2(x) == (x + 5) \div 10

\* A ratio column's value: a number (hundredths) or the text "N/A".
NA == [text |-> "N/A", num |-> 0]
Num(x) == [text |-> "", num |-> x]

\* Python truthiness of info.get(key, None): None and 0 are falsy.
Truthy(pe) == pe.present /\ pe.v # 0

\* round(pe, 2) if pe else "N/A"   (lines 72-73)
RatioField(pe) == IF Truthy(pe) THEN Num(Round2(pe.v)) ELSE NA

\* line 41: str(symbol).strip().upper()
Normalize(entry) == Upper(Strip(entry))

\* an empty history recorded without a note
NoHistoryRecordNoNote(symbol) == [sym |-> symbol, err |-> NOTE_NONE]

\* line 55
NoHistoryRecord(symbol) == [sym |-> symbol, err |-> NOTE_NO_HISTORY]

\* line 78
FailedRecord(symbol) == [sym |-> symbol, err |-> NOTE_FETCH_FAILED]

QuoteRecord(symbol, r) ==
    [sym |-> symbol,
     low |-> Round2(r.low), high |-> Round2(r.high), price |-> Round2(r.close),
     trailing |-> RatioField(r.trailingPE),
     forward |-> RatioField(r.forwardPE),
     err |-> NOTE_NONE]

\* The body of the try block, lines 46-75: either it raises or it appends a record.
TryBody(symbol, r) ==
    IF r.hist = "raise" THEN [raised |-> TRUE, rec |-> <<>>]
    ELSE IF r.hist = "empty" THEN [raised |-> FALSE, rec |-> <<NoHistoryRecord(symbol)>>]
    ELSE IF r.info = "raise" THEN [raised |-> TRUE, rec |-> <<>>]
    ELSE [raised |-> FALSE, rec |-> <<QuoteRecord(symbol, r)>>]

\* one iteration without the except clause: the exception leaves the loop
ProcessSymbolNoExcept(symbol, r) == TryBody(symbol, r)

\* try ... except Exception (lines 45-79): what one iteration appends, and whether
\* an exception leaves the loop.
ProcessSymbol(symbol, r) ==
    LET t == TryBody(symbol, r)
    IN  IF t.raised THEN [raised |-> FALSE, rec |-> <<FailedRecord(symbol)>>]
        ELSE t

\* get_stock_data(ticker_list) without the cache, resp[p] being the provider's
\* answer to the requests of position p: the loop of lines 40-79 appends one
\* record per entry that is not blank, in order, unless an exception leaves it.
GetStockData(tickers, resp) ==
    LET kept == SelectSeq(Positions(Len(tickers)), LAMBDA p : Normalize(tickers[p]) # <<>>)
        step == Computed([n \in 1..Len(kept) |->
                    ProcessSymbol(Normalize(tickers[kept[n]]), resp[kept[n]])])
    IN  IF \E n \in 1..Len(kept) : step[n].raised
        THEN [raised |-> TRUE, data |-> <<>>]
        ELSE [raised |-> FALSE, data |-> [n \in 1..Len(kept) |-> step[n].rec[1]]]

(***************************************************************************)
(* load_tickers_from_sheet, lines 87-96.                                   *)
(* A document is what the published CSV link answers in one run:           *)
(*   kind : "csv" when pd.read_csv and the column access succeed, "error"  *)
(*          when they raise (network error, 404, unparseable body)         *)
(*   rows : column 0 of the frame, one cell per row; a cell is a string or *)
(*          NaN (an empty cell)                                            *)
(***************************************************************************)
NaN == [na |-> TRUE, s |-> <<>>]
Cell(str) == [na |-> FALSE, s |-> str]

Unreachable == [kind |-> "error", rows |-> <<>>]
Sheet(cells) == [kind |-> "csv", rows |-> cells]

\* df_sheet[0].dropna().astype(str).tolist()   (line 91)
DropNa(cells) ==
    LET present == SelectSeq(cells, LAMBDA c : ~c.na)
    IN  [n \in 1..Len(present) |-> present[n].s]

TICKER == <<"T", "I", "C", "K", "E", "R">>

\* line 92: the test a row must pass to be kept
KeepTicker(t) == Len(t) < 10 /\ Upper(t) # TICKER

\* [t for t in tickers if len(t) < 10 and t.upper() != "TICKER"]   (line 92)
CleanTickers(tickers) == SelectSeq(tickers, KeepTicker)

\* the function without its try/except: a failed read leaves it as an exception
LoadTickersFromSheetNoExcept(answer) ==
    IF answer.kind = "csv"
    THEN [tickers |-> CleanTickers(DropNa(answer.rows)), error |-> FALSE, raised |-> FALSE]
    ELSE [tickers |-> <<>>, error |-> FALSE, raised |-> TRUE]

\* The function: the list it returns, whether it showed st.error (line 95) and
\* whether an exception left it.
LoadTickersFromSheet(answer) ==
    IF answer.kind = "csv"
    THEN [tickers |-> CleanTickers(DropNa(answer.rows)), error |-> FALSE, raised |-> FALSE]
    ELSE [tickers |-> <<>>, error |-> TRUE, raised |-> FALSE]

(***************************************************************************)
(* The messages the script shows.                                          *)
(***************************************************************************)
MSG_SHEET_ERROR == "st.error: cannot read Google Sheet"         \* line 95
MSG_FALLBACK == "st.warning: sheet read failed, using default list" \* line 114
MSG_LOADED == "st.info: loaded latest list from Google Sheet"    \* lines 112, 152
MSG_EMPTY == "st.warning: the list is empty"                     \* line 193

(***************************************************************************)
(* Resolution of the ticker list, lines 103-134.                           *)
(***************************************************************************)
\* lines 106-115: GOOGLE_SHEET_URL is set
ResolveFromSheet(answer) ==
    LET loaded == LoadTickersFromSheet(answer)
        sheet_tickers == loaded.tickers
        shown == IF loaded.error THEN {MSG_SHEET_ERROR} ELSE {}
    IN  IF loaded.raised
        THEN [list |-> <<>>, messages |-> shown, raised |-> TRUE]
        ELSE IF sheet_tickers # <<>>
        THEN [list |-> sheet_tickers, messages |-> shown \cup {MSG_LOADED}, raised |-> FALSE]
        ELSE [list |-> ParseTickerText(DEFAULT_TICKERS_STR),
              messages |-> shown \cup {MSG_FALLBACK}, raised |-> FALSE]

\* lines 119-121: the text the text area starts from
InitialValue(query) == IF query # <<>> THEN query ELSE DEFAULT_TICKERS_STR

\* lines 127-128: the query parameter after the run
QueryAfter(query, text) ==
    IF text # InitialValue(query) THEN text ELSE query

\* line 134
ResolveFromText(text) == ParseTickerText(text)

(***************************************************************************)
(* The result cache: @st.cache_data(ttl=300) on get_stock_data (line 31)   *)
(* and st.cache_data.clear() (lines 131, 148).  An entry is kept per       *)
(* argument value, with the time it was stored.                            *)
(***************************************************************************)
EmptyCache == [k \in {} |-> 0]

IsFresh(entry, t) == t - entry.at < TTL

CacheHit(c, key, t) == key \in DOMAIN c /\ IsFresh(c[key], t)

\* a cache of one slot: storing a result discards every other entry
CacheStoreSingle(c, key, value, t) == [k \in {key} |-> [at |-> t, value |-> value]]

\* a miss stores the new result; entries past their time-to-live are dropped
CacheStore(c, key, value, t) ==
    LET live == {k \in DOMAIN c : IsFresh(c[k], t)}
    IN  [k \in live \cup {key} |-> IF k = key THEN [at |-> t, value |-> value] ELSE c[k]]

\* a refresh button that reruns the script without clearing the cache
CacheKeptOnButton(c, click) == c

\* the cache the run works with: emptied first when the refresh button was pressed
CacheAfterButton(c, click) == IF click THEN EmptyCache ELSE c

(***************************************************************************)
(* Presentation, lines 158-193.                                            *)
(***************************************************************************)
\* the fetch without the test of line 158
AlwaysFetch(list) == TRUE

\* line 158: if final_ticker_list:
ShouldFetch(list) == list # <<>>

\* df.sort_values(by="symbol column").reset_index(drop=True)   (line 162).  The
\* call names no sort kind, so pandas uses its default, quicksort, which does not
\* promise the order of rows with equal keys: every ascending arrangement of the
\* rows is a possible result.  An arrangement is fixed by the order `first` in
\* which rows of equal symbol come out.
SortValues(rows) ==
    LET n == Len(rows)
        tied == {k \in 1..n : \E j \in 1..n : j # k /\ rows[j].sym = rows[k].sym}
        orders == {f \in [tied -> tied] : \A x \in tied, y \in tied : x # y => f[x] # f[y]}
        Before(first, j, k) ==
            \/ StrLess(rows[j].sym, rows[k].sym)
            \/ rows[j].sym = rows[k].sym /\ j # k /\ first[j] < first[k]
        Arranged(first) ==
            LET rank == Computed([k \in 1..n |->
                                    Cardinality({j \in 1..n : Before(first, j, k)}) + 1])
                at == [r \in 1..n |-> CHOOSE k \in 1..n : rank[k] = r]
            IN  [r \in 1..n |-> rows[at[r]]]
    IN  {Arranged(first) : first \in orders}

\* lines 161-162: sorted unless the frame is empty
Displayed(table) == IF table # <<>> THEN SortValues(table) ELSE {table}

(***************************************************************************)
(* State.                                                                  *)
(*                                                                         *)
(* The script, one run (interaction cycle) per step:                       *)
(*   sheet_configured  : GOOGLE_SHEET_URL is non-empty (fixed per          *)
(*                       deployment; line 12 sets it, lines 106/116 test)  *)
(*   now               : the clock, in seconds                             *)
(*   cache             : the entries of st.cache_data                      *)
(*   doc               : what the sheet link answered in the last run      *)
(*   url_tickers       : st.query_params["tickers"]                        *)
(*   user_tickers      : the text area's content in the last run           *)
(*   final_ticker_list : the resolved list of the last run                 *)
(*   messages          : the messages the last run showed                  *)
(*   clicked           : the refresh button was pressed for the last run   *)
(*   called            : the last run called get_stock_data                *)
(*   fetch_ran         : ... and the call ran the function body            *)
(*   result            : the table the call returned                       *)
(*   df                : the table displayed and exported                  *)
(*   displayed         : the last run displayed and exported a table       *)
(*   script_error      : an exception ended the last run                   *)
(*   last_fetch        : per ticker list, time and table of the last run   *)
(*                       of the function body since the cache was cleared  *)
(*                       (history, for the properties only)                *)
(*   nfetch            : how often the function body ran                   *)
(*                                                                         *)
(* get_stock_data on its own, one loop iteration per step:                 *)
(*   ticker_list : the argument                                            *)
(*   answers     : the provider's answer to the requests of each position  *)
(*   i           : position of the entry the loop handles next (1-based)   *)
(*   data        : the records appended so far                             *)
(*   origin      : for each record of data, the position it was made for   *)
(*                 (history, for the properties only)                      *)
(*   pc          : "loop", "returned" or "raised" (an exception left the   *)
(*                 function)                                               *)
(***************************************************************************)
VARIABLES sheet_configured, now, cache, doc, url_tickers, user_tickers,
          final_ticker_list, messages, clicked, called, fetch_ran, result, df,
          displayed, script_error, last_fetch, nfetch,
          ticker_list, answers, i, data, origin, pc

app_vars == <<sheet_configured, now, cache, doc, url_tickers, user_tickers,
              final_ticker_list, messages, clicked, called, fetch_ran, result, df,
              displayed, script_error, last_fetch, nfetch>>
fetch_vars == <<ticker_list, answers, i, data, origin, pc>>
vars == <<app_vars, fetch_vars>>

(***************************************************************************)
(* Before the first run, and before get_stock_data is entered.             *)
(***************************************************************************)
\* no document was requested yet (or none is: the link is not configured)
NoDoc == [kind |-> "none", rows |-> <<>>]

AppIdle ==
    /\ now = 0
    /\ cache = EmptyCache
    /\ doc = NoDoc
    /\ url_tickers = <<>>
    /\ user_tickers = <<>>
    /\ final_ticker_list = <<>>
    /\ messages = {}
    /\ clicked = FALSE
    /\ called = FALSE
    /\ fetch_ran = FALSE
    /\ result = <<>>
    /\ df = <<>>
    /\ displayed = FALSE
    /\ script_error = FALSE
    /\ last_fetch = EmptyCache
    /\ nfetch = 0

FetchIdle ==
    /\ ticker_list = <<>>
    /\ answers = <<>>
    /\ i = 1
    /\ data = <<>>
    /\ origin = <<>>
    /\ pc = "returned"

(***************************************************************************)
(* get_stock_data on its own (SpecFetch).                                  *)
(***************************************************************************)
\* entries of a ticker list: blank, padded lower case, upper case
FetchEntries == {<<" ">>, <<" ", "a">>, <<"B">>}

RECURSIVE SeqsUpTo(_, _)
SeqsUpTo(S, n) ==
    IF n = 0 THEN {<<>>}
    ELSE LET shorter == SeqsUpTo(S, n - 1)
         IN  shorter \cup {Append(s, x) : s \in {t \in shorter : Len(t) = n - 1}, x \in S}

InitFetch ==
    /\ AppIdle
    /\ sheet_configured = TRUE
    /\ ticker_list \in SeqsUpTo(FetchEntries, MaxLen)
    /\ answers \in [1..Len(ticker_list) -> Responses]
    /\ i = 1
    /\ data = <<>>
    /\ origin = <<>>
    /\ pc = "loop"

\* lines 41-43: the entry is blank after strip/upper
SkipBlank ==
    /\ pc = "loop"
    /\ i <= Len(ticker_list)
    /\ Normalize(ticker_list[i]) = <<>>
    /\ i' = i + 1
    /\ UNCHANGED <<ticker_list, answers, data, origin, pc, app_vars>>

\* lines 45-79: one symbol is requested and a record appended
FetchSymbol ==
    /\ pc = "loop"
    /\ i <= Len(ticker_list)
    /\ Normalize(ticker_list[i]) # <<>>
    /\ LET one == ProcessSymbol(Normalize(ticker_list[i]), answers[i])
       IN  IF one.raised
           THEN /\ pc' = "raised"
                /\ UNCHANGED <<i, data, origin>>
           ELSE /\ data' = data \o one.rec
                /\ origin' = Append(origin, i)
                /\ i' = i + 1
                /\ pc' = "loop"
    /\ UNCHANGED <<ticker_list, answers, app_vars>>

\* lines 81-84: the loop is over, the table is returned
Return ==
    /\ pc = "loop"
    /\ i > Len(ticker_list)
    /\ pc' = "returned"
    /\ UNCHANGED <<ticker_list, answers, i, data, origin, app_vars>>

NextFetch == SkipBlank \/ FetchSymbol \/ Return

SpecFetch == InitFetch /\ [][NextFetch]_vars
(***************************************************************************)
(* Properties of get_stock_data (checked under SpecFetch).                 *)
(***************************************************************************)
\* positions of the entries of tickers[k..] that are non-blank after strip/upper
RECURSIVE NonBlankFrom(_, _)
NonBlankFrom(tickers, k) ==
    IF k > Len(tickers) THEN <<>>
    ELSE (IF Upper(Strip(tickers[k])) # <<>> THEN <<k>> ELSE <<>>)
         \o NonBlankFrom(tickers, k + 1)

\* the history request or the info request of this answer raises
AnswerRaises(r) == r.hist = "raise" \/ (r.hist = "rows" /\ r.info = "raise")

PriceFields == {"low", "high", "price"}
NumericFields == PriceFields \cup {"trailing", "forward"}

\* C1: get_stock_data never lets an exception out and, once it has returned,
\* holds exactly one record per entry that is non-blank after strip/upper, in
\* input order, each under its normalized symbol; a symbol whose request raised
\* has a record of just the symbol and the "fetch failed" note, and the symbols
\* after it have their records too.
C1_OneRecordPerEntry ==
    /\ pc # "raised"
    /\ pc = "returned" =>
         /\ origin = NonBlankFrom(ticker_list, 1)
         /\ Len(data) = Len(origin)
         /\ \A k \in 1..Len(data) :
              /\ data[k].sym = Upper(Strip(ticker_list[origin[k]]))
              /\ AnswerRaises(answers[origin[k]]) =>
                   data[k] = [sym |-> data[k].sym, err |-> NOTE_FETCH_FAILED]

\* a batch whose first symbol raised and whose second symbol was still fetched
C1_Witness ==
    /\ pc = "returned"
    /\ Len(data) = 2
    /\ AnswerRaises(answers[origin[1]])
    /\ data[1].err = NOTE_FETCH_FAILED
    /\ data[2].err = NOTE_NONE

\* C2: every record appended is either a quote (the three price fields present,
\* empty note) or an annotated failure (non-empty note, no numeric field), never
\* both and never neither; an empty history always gives the second kind.
C2_QuoteOrNote ==
    \A k \in 1..Len(data) :
        LET rec == data[k]
            isQuote == PriceFields \subseteq DOMAIN rec /\ rec.err = NOTE_NONE
            isNote == rec.err # NOTE_NONE /\ DOMAIN rec \cap NumericFields = {}
        IN  /\ isQuote # isNote
            /\ answers[origin[k]].hist = "empty" => isNote

\* a table holding a no-history record next to a quote
C2_Witness ==
    /\ Len(data) = 2
    /\ answers[origin[1]].hist = "empty"
    /\ data[1].err = NOTE_NO_HISTORY
    /\ data[2].err = NOTE_NONE
    /\ "low" \in DOMAIN data[2]

\* C6: in every quote record, each ratio column holds the info bundle's ratio
\* rounded to 2 decimals when the bundle has it, and "N/A" exactly when the
\* bundle does not have it.
C6_RatioOrSentinel ==
    \A k \in 1..Len(data) :
        data[k].err = NOTE_NONE =>
            LET r == answers[origin[k]]
            IN  /\ data[k].trailing =
                     (IF r.trailingPE.present THEN Num(Round2(r.trailingPE.v)) ELSE NA)
                /\ data[k].forward =
                     (IF r.forwardPE.present THEN Num(Round2(r.forwardPE.v)) ELSE NA)

(***************************************************************************)
(* The script (Spec): one run per step.                                    *)
(***************************************************************************)
\* how often the body of get_stock_data may run in a behaviour
MaxFetches == 2
\* how far the clock advances, in steps of half the time-to-live
MaxTicks == 2

HalfTTL == TTL \div 2

AAPL == <<"A", "A", "P", "L">>

\* the documents the sheet link may answer with
Docs ==
    { Unreachable,
      Sheet(<<Cell(AAPL), Cell(<<" ", "a", "a", "p", "l">>)>>),
      Sheet(<<Cell(<<"T", "i", "c", "k", "e", "r">>), NaN,
              Cell(<<"A", "B", "C", "D", "E", "F", "G", "H", "I">>),
              Cell(<<"A", "B", "C", "D", "E", "F", "G", "H", "I", "J">>)>>),
      Sheet(<<Cell(TICKER), NaN>>),
      Sheet(<<Cell(<<" ">>)>>) }

\* what the user may have typed into the text area
UserTexts ==
    { <<" ", ",", " ">>,
      <<"M", "S", "F", "T", ",", "A", "A", "P", "L", ",", "G", "O", "O", "G">>,
      <<"m", "s", "f", "t", ",", " ", "M", "S", "F", "T", ",">> }

\* the provider's answers a run may meet: a full quote, a failing request
QUOTED == Quote("ok", Present(15238), Absent)
FAILING == NoAnswer("raise")

\* the answers of one run, given as <<answer at the odd positions, answer at the
\* even positions>>: the provider works, or fails for every other request
AppResponses == { <<QUOTED, QUOTED>>, <<QUOTED, FAILING>>, <<FAILING, QUOTED>> }

AnswersFor(list, ab) == [p \in 1..Len(list) |-> IF p % 2 = 1 THEN ab[1] ELSE ab[2]]

(***************************************************************************)
(* The functions of the script tabulated over the inputs above, so that    *)
(* each is evaluated once and not in every step.                           *)
(***************************************************************************)
Texts == UserTexts \cup {DEFAULT_TICKERS_STR}

FromSheet == [d \in Docs |-> ResolveFromSheet(d)]

FromText == [t \in Texts |-> ResolveFromText(t)]

Lists == {FromSheet[d].list : d \in Docs} \cup {FromText[t] : t \in Texts}

Fetched ==
    [l \in Lists, ab \in AppResponses |-> GetStockData(l, AnswersFor(l, ab))]

Tables == {Fetched[l, ab].data : l \in Lists, ab \in AppResponses}

Sorted == [t \in Tables |-> Displayed(t)]

Init ==
    /\ sheet_configured \in BOOLEAN
    /\ AppIdle
    /\ FetchIdle

\* An exception ended the run before anything was displayed.
Crash(shown) ==
    /\ messages' = shown
    /\ called' = FALSE
    /\ fetch_ran' = FALSE
    /\ result' = <<>>
    /\ df' = <<>>
    /\ displayed' = FALSE
    /\ script_error' = TRUE
    /\ UNCHANGED <<cache, last_fetch, nfetch>>

\* lines 158-193, for the resolved list and this run's messages so far; c and
\* lf are the cache and the fetch history the run starts with.
Main(list, shown, c, lf) ==
    IF ~ShouldFetch(list)
    THEN \* line 193
         /\ messages' = shown \cup {MSG_EMPTY}
         /\ called' = FALSE
         /\ fetch_ran' = FALSE
         /\ result' = <<>>
         /\ df' = <<>>
         /\ displayed' = FALSE
         /\ script_error' = FALSE
         /\ cache' = c
         /\ last_fetch' = lf
         /\ nfetch' = nfetch
    ELSE IF CacheHit(c, list, now)
    THEN \* line 159, answered by the cache
         /\ messages' = shown
         /\ called' = TRUE
         /\ fetch_ran' = FALSE
         /\ result' = c[list].value
         /\ df' \in Sorted[c[list].value]
         /\ displayed' = TRUE
         /\ script_error' = FALSE
         /\ cache' = c
         /\ last_fetch' = lf
         /\ nfetch' = nfetch
    ELSE \* line 159, the function body runs
         /\ nfetch < MaxFetches
         /\ \E ab \in AppResponses :
              LET got == Fetched[list, ab]
              IN  IF got.raised
                  THEN Crash(shown)
                  ELSE /\ messages' = shown
                       /\ called' = TRUE
                       /\ fetch_ran' = TRUE
                       /\ result' = got.data
                       /\ df' \in Sorted[got.data]
                       /\ displayed' = TRUE
                       /\ script_error' = FALSE
                       /\ cache' = CacheStore(c, list, got.data, now)
                       /\ last_fetch' = [k \in DOMAIN lf \cup {list} |->
                                           IF k = list THEN [at |-> now, value |-> got.data]
                                           ELSE lf[k]]
                       /\ nfetch' = nfetch + 1

\* One run with GOOGLE_SHEET_URL set (lines 106-115, 137-149, 158-193).  A
\* press of the refresh button (line 147) clears the cache and reruns the script.
RunSheet ==
    /\ sheet_configured
    /\ \E d \in Docs, click \in BOOLEAN :
         LET resolved == FromSheet[d]
         IN  /\ doc' = d
             /\ clicked' = click
             /\ final_ticker_list' = resolved.list
             /\ IF resolved.raised
                THEN Crash(resolved.messages)
                ELSE Main(resolved.list, resolved.messages,
                          CacheAfterButton(cache, click),
                          IF click THEN EmptyCache ELSE last_fetch)
    /\ UNCHANGED <<sheet_configured, now, url_tickers, user_tickers, fetch_vars>>

\* One run with GOOGLE_SHEET_URL empty (lines 116-134, 158-193): the text area
\* holds its initial value or what the user typed.
RunManual ==
    /\ ~sheet_configured
    /\ \E text \in UserTexts \cup {InitialValue(url_tickers)}, click \in BOOLEAN :
         /\ user_tickers' = text
         /\ url_tickers' = QueryAfter(url_tickers, text)
         /\ clicked' = click
         /\ final_ticker_list' = FromText[text]
         /\ Main(FromText[text], {},
                 CacheAfterButton(cache, click),
                 IF click THEN EmptyCache ELSE last_fetch)
    /\ UNCHANGED <<sheet_configured, now, doc, fetch_vars>>

\* Time passes between two runs.
Tick ==
    /\ now < MaxTicks * HalfTTL
    /\ now' = now + HalfTTL
    /\ UNCHANGED <<sheet_configured, cache, doc, url_tickers, user_tickers,
                   final_ticker_list, messages, clicked, called, fetch_ran, result,
                   df, displayed, script_error, last_fetch, nfetch, fetch_vars>>

Next == RunSheet \/ RunManual \/ Tick

Spec == Init /\ [][Next]_vars

(***************************************************************************)
(* Properties of the script (checked under Spec).                          *)
(***************************************************************************)
\* a step that is a run of the script (the clock stands still during a run)
IsRun == now' = now

\* C3: a call of get_stock_data with a ticker list whose last fetch is less than
\* 300 seconds old, with no press of the refresh button since, does not run the
\* function body and returns the very table that fetch produced; a run started
\* by the refresh button always runs the function body.
C3_CacheIdempotence ==
    [][ IsRun /\ called' =>
          /\ ( /\ ~clicked'
               /\ final_ticker_list' \in DOMAIN last_fetch
               /\ now - last_fetch[final_ticker_list'].at < TTL )
             => ( ~fetch_ran' /\ result' = last_fetch[final_ticker_list'].value )
          /\ clicked' => fetch_ran'
      ]_vars

\* a call answered from the cache 150 seconds after the fetch
C3_Witness ==
    /\ called
    /\ ~fetch_ran
    /\ final_ticker_list \in DOMAIN last_fetch
    /\ now - last_fetch[final_ticker_list].at = HalfTTL
    /\ result = last_fetch[final_ticker_list].value
    /\ result # <<>>

\* C4: when the sheet link is configured and loading it fails, the run ends
\* without an exception, shows the fallback warning, and the resolved list is
\* the embedded default list (DEFAULT_TICKERS_STR split on commas, trimmed,
\* empty entries dropped).
C4_FallbackToDefault ==
    (sheet_configured /\ doc.kind = "error") =>
        /\ ~script_error
        /\ MSG_FALLBACK \in messages
        /\ final_ticker_list = ParseTickerText(DEFAULT_TICKERS_STR)
        /\ final_ticker_list # <<>>

\* a run whose sheet load failed and that went on to display the default list
C4_Witness ==
    /\ sheet_configured
    /\ doc.kind = "error"
    /\ MSG_SHEET_ERROR \in messages
    /\ MSG_FALLBACK \in messages
    /\ displayed
    /\ Len(df) > 1

\* the rows the sheet filter is to keep: not empty, at most 9 characters, not
\* the header word in any letter case
WantedRows(cells) ==
    LET kept == SelectSeq(cells, LAMBDA c : /\ ~c.na
                                            /\ c.s # <<>>
                                            /\ Len(c.s) <= 9
                                            /\ Upper(c.s) # TICKER)
    IN  [n \in 1..Len(kept) |-> kept[n].s]

\* C5: when the sheet link is configured and loading it succeeds, the resolved
\* list is exactly the loaded rows without the empty ones, the ones longer than
\* 9 characters and the header word, in sheet order -- also when nothing is left.
C5_LoadedListIsFiltered ==
    (sheet_configured /\ doc.kind = "csv") => final_ticker_list = WantedRows(doc.rows)

\* C7 as stated: the cache never holds more than one valid entry.
C7_SingleEntry ==
    Cardinality({k \in DOMAIN cache : now - cache[k].at < TTL}) <= 1

\* C7 as amended: the cache keeps an entry per ticker list.  Every table fetched
\* since the cache was last cleared and less than 300 seconds old is still in
\* the cache, whichever lists were used after it.
C7_EntryPerList ==
    \A k \in DOMAIN last_fetch :
        now - last_fetch[k].at < TTL =>
            k \in DOMAIN cache /\ cache[k] = last_fetch[k]

\* back at an earlier list after another list was fetched: answered by the cache
C7_Witness ==
    /\ called
    /\ ~fetch_ran
    /\ final_ticker_list \in DOMAIN cache
    /\ \E k \in DOMAIN cache :
         /\ k # final_ticker_list
         /\ cache[k].at > cache[final_ticker_list].at
         /\ now - cache[k].at < TTL

\* C8: no two records of the fetched table carry the same symbol.
C8_UniqueSymbols ==
    \A j \in 1..Len(result), k \in 1..Len(result) :
        j # k => result[j].sym # result[k].sym

\* the rows of a table that carry symbol s, in table order
RowsOf(table, s) == SelectSeq(table, LAMBDA rec : rec.sym = s)

\* C9: the displayed table holds the records of the fetched table, no more and
\* no fewer, in ascending symbol order, the records of one symbol in the order
\* the fetch produced them.
C9_StableSorted ==
    displayed =>
        /\ Len(df) = Len(result)
        /\ \A r \in 1..(Len(df) - 1) : ~StrLess(df[r + 1].sym, df[r].sym)
        /\ \A r \in 1..Len(result) :
             RowsOf(df, result[r].sym) = RowsOf(result, result[r].sym)

\* C10: a run whose resolved list is empty calls neither get_stock_data nor its
\* cache, displays no table, shows the "list is empty" warning and ends without
\* an exception; get_stock_data is only ever called with a non-empty list.
C10_EmptyListSkipsFetch ==
    [][ IsRun =>
          /\ final_ticker_list' = <<>> =>
               /\ ~called'
               /\ ~fetch_ran'
               /\ nfetch' = nfetch
               /\ ~displayed'
               /\ df' = <<>>
               /\ MSG_EMPTY \in messages'
               /\ ~script_error'
          /\ called' => final_ticker_list' # <<>>
      ]_vars

\* a run over a text with no symbol in it ended in the empty state
C10_Witness ==
    /\ user_tickers = <<" ", ",", " ">>
    /\ final_ticker_list = <<>>
    /\ MSG_EMPTY \in messages
    /\ ~called
    /\ ~displayed

====
